---- MODULE Spec2Model ----
(***************************************************************************)
(* Model of the Food and Beverage Catalog API (src/app.py).                *)
(*                                                                         *)
(* The process-wide catalog is a dict from product id to Product.  Clients *)
(* send HTTP requests; the router picks the first registered route that    *)
(* matches, the query parameter is validated (Query(..., gt=0)) and the    *)
(* handler runs.  Every handler is an "async def" without any await, so    *)
(* the event loop runs its body to completion before any other handler:    *)
(* serving a request is one atomic step, while any number of requests may  *)
(* be in flight between arrival and service.                               *)
(*                                                                         *)
(* Prices are kept in cents.  total_price = round(order_qty * price, 2) is *)
(* a whole number of cents for every quantity the model uses, so the       *)
(* rounded float denotes exactly order_qty * cents.                        *)
(***************************************************************************)
EXTENDS Integers, Sequences, FiniteSets, Bags

VARIABLES catalog, inflight, response, log, lastOrder, sent, peak

vars == <<catalog, inflight, response, log, lastOrder, sent, peak>>

(* ---------------------------- bounds ----------------------------------- *)

\* number of requests that may be in flight at the same time
MaxInflight == 2

\* number of requests sent in one behaviour
MaxRequests == 2

\* order_qty values the clients send: negative, zero, a small order, a whole
\* stock (beer) or half of one (pizza), and more than any stock
OrderQuantities == {-1, 0, 3, 500, 2000}

\* restock_qty values the clients send
RestockQuantities == {-1, 0, 3, 50}

\* product path segments the clients send: every catalog id, an unknown id,
\* and the segment that the inventory route claims
Targets == {"pizza", "beer", "burger", "White Russians", "fries", "soda", "inventory"}

(* ---------------------------- catalog ---------------------------------- *)

\* insertion order of the dict literal
SeedOrder == <<"pizza", "beer", "burger", "White Russians", "fries">>

SeedCatalog ==
    [p \in {"pizza", "beer", "burger", "White Russians", "fries"} |->
        CASE p = "pizza"          -> [units |-> "boxes",    qty |-> 1000, price |-> 1299, name |-> "Deluxe Pizza"]
          [] p = "beer"           -> [units |-> "bottles",  qty |-> 500,  price |-> 450,  name |-> "Craft Beer"]
          [] p = "burger"         -> [units |-> "pieces",   qty |-> 750,  price |-> 899,  name |-> "Classic Burger"]
          [] p = "White Russians" -> [units |-> "pieces",   qty |-> 1750, price |-> 1299, name |-> "White Russians Cocktail"]
          [] p = "fries"          -> [units |-> "servings", qty |-> 1200, price |-> 399,  name |-> "French Fries"]]

\* mutant: the display names are listed instead of the ids
KeysAsNames(cat) == [i \in 1..Len(SeedOrder) |-> cat[SeedOrder[i]].name]

\* catalog.keys(): the ids in insertion order
Keys(cat) == SelectSeq(SeedOrder, LAMBDA k : k \in DOMAIN cat)

(* ---------------------------- requests --------------------------------- *)

NoRequest == [method |-> "NONE", path |-> <<>>, qty |-> 0]

NoResponse == [request |-> NoRequest, status |-> 0, body |-> [none |-> TRUE], concurrent |-> 0]

NoOrder == [available |-> -1, order_qty |-> 0]

Requests ==
    {[method |-> "GET", path |-> <<>>, qty |-> 0],
     [method |-> "GET", path |-> <<"health">>, qty |-> 0]}
    \cup {[method |-> "GET", path |-> <<"warehouse", x>>, qty |-> q] :
             x \in Targets, q \in OrderQuantities}
    \cup {[method |-> "POST", path |-> <<"warehouse", x, "restock">>, qty |-> q] :
             x \in Targets, q \in RestockQuantities}

\* the router tries the routes in the order they were registered
Route(req) ==
    IF req.method = "GET" /\ req.path = <<>> THEN "root"
    ELSE IF req.method = "GET" /\ req.path = <<"health">> THEN "health_check"
    ELSE IF req.method = "GET" /\ req.path = <<"warehouse", "inventory">> THEN "get_inventory"
    ELSE IF req.method = "GET" /\ Len(req.path) = 2 /\ req.path[1] = "warehouse" THEN "place_order"
    ELSE IF req.method = "POST" /\ Len(req.path) = 3 /\ req.path[1] = "warehouse"
            /\ req.path[3] = "restock" THEN "restock_product"
    ELSE "no_route"

\* mutant: ge=0 (as on Product.qty) instead of gt=0
QueryGe0(q) == q >= 0

\* Query(..., gt=0)
QueryGt0(q) == q > 0

ValidationError(param) ==
    [status |-> 422, body |-> [error |-> "greater_than", loc |-> param]]

(* ---------------------------- handlers --------------------------------- *)

root(cat) ==
    [catalog |-> cat,
     status  |-> 200,
     body    |-> [message |-> "Food & Beverage Catalog API", version |-> "2.0.0"],
     logged  |-> <<>>]

products_available(cat) == Cardinality(DOMAIN cat)

health_check(cat) ==
    [catalog |-> cat,
     status  |-> 200,
     body    |-> [status |-> "healthy", products_available |-> products_available(cat)],
     logged  |-> <<>>]

inventory_data(cat) ==
    [p \in DOMAIN cat |->
        [name |-> cat[p].name, units |-> cat[p].units, qty |-> cat[p].qty,
         price |-> cat[p].price, in_stock |-> cat[p].qty > 0]]

get_inventory(cat) ==
    [catalog |-> cat,
     status  |-> 200,
     body    |-> [products |-> inventory_data(cat),
                  total_products |-> Cardinality(DOMAIN cat)],
     logged  |-> <<>>]

\* mutant: the comparison of the availability check is reversed
StockCheckReversed(order_qty, available) ==
    IF order_qty < available THEN "Insufficient stock"
    ELSE IF available = 0 THEN "Out of stock"
    ELSE "ok"

\* mutant: the availability check is missing
StockCheckZeroOnly(order_qty, available) ==
    IF available = 0 THEN "Out of stock" ELSE "ok"

\* mutant: the out-of-stock check comes first
StockCheckSwapped(order_qty, available) ==
    IF available = 0 THEN "Out of stock"
    ELSE IF order_qty > available THEN "Insufficient stock"
    ELSE "ok"

\* the two stock checks of place_order, in source order
StockCheck(order_qty, available) ==
    IF order_qty > available THEN "Insufficient stock"
    ELSE IF available = 0 THEN "Out of stock"
    ELSE "ok"

\* mutant: one unit is taken whatever the order
DecrementByOne(cat, product, order_qty) ==
    [cat EXCEPT ![product].qty = @ - 1]

\* mutant: the new quantity is computed from the seeded stock (a stale copy)
DecrementStale(cat, product, order_qty) ==
    [cat EXCEPT ![product].qty = SeedCatalog[product].qty - order_qty]

\* mutant: every product is decremented
DecrementAll(cat, product, order_qty) ==
    [p \in DOMAIN cat |-> [cat[p] EXCEPT !.qty = @ - order_qty]]

\* catalog[product].qty -= order_qty
Decrement(cat, product, order_qty) ==
    [cat EXCEPT ![product].qty = @ - order_qty]

\* mutant: the quantity is assigned, not added
IncrementAssign(cat, product, restock_qty) ==
    [cat EXCEPT ![product].qty = restock_qty]

\* mutant: -= copied from place_order
IncrementAsDecrement(cat, product, restock_qty) ==
    [cat EXCEPT ![product].qty = @ - restock_qty]

\* catalog[product].qty += restock_qty
Increment(cat, product, restock_qty) ==
    [cat EXCEPT ![product].qty = @ + restock_qty]

place_order(cat, product, order_qty) ==
    IF product \notin DOMAIN cat
    THEN [catalog |-> cat,
          status  |-> 404,
          body    |-> [detail |-> "not found", product |-> product,
                       available_products |-> Keys(cat)],
          logged  |-> <<>>]
    ELSE LET product_data == cat[product]
             available    == product_data.qty
             check        == StockCheck(order_qty, available)
         IN  IF check = "Insufficient stock"
             THEN [catalog |-> cat,
                   status  |-> 400,
                   body    |-> [error |-> "Insufficient stock", requested |-> order_qty,
                                available |-> available, product |-> product_data.name],
                   logged  |-> <<>>]
             ELSE IF check = "Out of stock"
             THEN [catalog |-> cat,
                   status  |-> 400,
                   body    |-> [error |-> "Out of stock", product |-> product_data.name],
                   logged  |-> <<>>]
             ELSE LET new == Decrement(cat, product, order_qty)
                  IN  [catalog |-> new,
                       status  |-> 200,
                       body    |-> [product |-> product,
                                    product_name |-> new[product].name,
                                    ordered_qty |-> order_qty,
                                    units |-> new[product].units,
                                    remaining_qty |-> new[product].qty,
                                    total_price |-> order_qty * new[product].price],
                       logged  |-> <<[event |-> "Order placed", order_qty |-> order_qty,
                                      units |-> new[product].units,
                                      name |-> new[product].name,
                                      remaining |-> new[product].qty]>>]

restock_product(cat, product, restock_qty) ==
    IF product \notin DOMAIN cat
    THEN [catalog |-> cat,
          status  |-> 404,
          body    |-> [detail |-> "not found", product |-> product],
          logged  |-> <<>>]
    ELSE LET old_qty == cat[product].qty
             new     == Increment(cat, product, restock_qty)
             new_qty == new[product].qty
         IN  [catalog |-> new,
              status  |-> 200,
              body    |-> [product |-> product,
                           product_name |-> new[product].name,
                           previous_qty |-> old_qty,
                           restocked_qty |-> restock_qty,
                           new_qty |-> new_qty],
              logged  |-> <<[event |-> "Restocked", product |-> product,
                             old_qty |-> old_qty, new_qty |-> new_qty,
                             restock_qty |-> restock_qty]>>]

(* ---------------------------- actions ---------------------------------- *)

Init ==
    /\ catalog = SeedCatalog
    /\ inflight = EmptyBag
    /\ response = NoResponse
    /\ log = <<>>
    /\ lastOrder = [p \in DOMAIN SeedCatalog |-> NoOrder]
    /\ sent = 0
    /\ peak = 0

\* a client request arrives and waits for the event loop
Send(req) ==
    /\ sent < MaxRequests
    /\ BagCardinality(inflight) < MaxInflight
    /\ inflight' = inflight (+) SetToBag({req})
    /\ sent' = sent + 1
    /\ peak' = IF BagCardinality(inflight) + 1 > peak THEN BagCardinality(inflight) + 1 ELSE peak
    /\ UNCHANGED <<catalog, response, log, lastOrder>>

\* the outcome r of the handler for the in-flight request req is applied and
\* the response is sent
Reply(req, r) ==
    /\ catalog' = r.catalog
    /\ response' = [request |-> req, status |-> r.status, body |-> r.body,
                    concurrent |-> BagCardinality(inflight) - 1]
    /\ log' = log \o r.logged
    /\ inflight' = inflight (-) SetToBag({req})
    /\ UNCHANGED <<sent, peak>>

Reject(req, param) ==
    Reply(req, [catalog |-> catalog, status |-> ValidationError(param).status,
                body |-> ValidationError(param).body, logged |-> <<>>])

ServeRoot(req) ==
    /\ Route(req) = "root"
    /\ Reply(req, root(catalog))
    /\ UNCHANGED lastOrder

ServeHealthCheck(req) ==
    /\ Route(req) = "health_check"
    /\ Reply(req, health_check(catalog))
    /\ UNCHANGED lastOrder

ServeGetInventory(req) ==
    /\ Route(req) = "get_inventory"
    /\ Reply(req, get_inventory(catalog))
    /\ UNCHANGED lastOrder

ServePlaceOrder(req) ==
    /\ Route(req) = "place_order"
    /\ LET product   == req.path[2]
           order_qty == req.qty
       IN  IF ~QueryGt0(order_qty)
           THEN Reject(req, "order_qty") /\ UNCHANGED lastOrder
           ELSE LET r == place_order(catalog, product, order_qty)
                IN  /\ Reply(req, r)
                    /\ lastOrder' =
                         IF r.logged # <<>>
                         THEN [lastOrder EXCEPT ![product] =
                                  [available |-> catalog[product].qty, order_qty |-> order_qty]]
                         ELSE lastOrder

ServeRestock(req) ==
    /\ Route(req) = "restock_product"
    /\ LET product     == req.path[2]
           restock_qty == req.qty
       IN  IF ~QueryGt0(restock_qty)
           THEN Reject(req, "restock_qty") /\ UNCHANGED lastOrder
           ELSE LET r == restock_product(catalog, product, restock_qty)
                IN  /\ Reply(req, r)
                    /\ lastOrder' =
                         IF r.logged # <<>>
                         THEN [lastOrder EXCEPT ![product] = NoOrder]
                         ELSE lastOrder

Next ==
    \/ \E req \in Requests : Send(req)
    \/ \E req \in BagToSet(inflight) : ServeRoot(req)
    \/ \E req \in BagToSet(inflight) : ServeHealthCheck(req)
    \/ \E req \in BagToSet(inflight) : ServeGetInventory(req)
    \/ \E req \in BagToSet(inflight) : ServePlaceOrder(req)
    \/ \E req \in BagToSet(inflight) : ServeRestock(req)

Spec == Init /\ [][Next]_vars

(* ---------------------------- properties ------------------------------- *)

\* this step serves the in-flight request req
Served(req) ==
    /\ req \in BagToSet(inflight)
    /\ inflight' = inflight (-) SetToBag({req})
    /\ response'.request = req

IsPlaceOrder(req) == Route(req) = "place_order"

IsRestock(req) == Route(req) = "restock_product"

QtyUnchanged == \A p \in DOMAIN catalog : catalog'[p].qty = catalog[p].qty

RECURSIVE OrderedQty(_, _)
\* sum of the order quantities logged for the product with this display name
OrderedQty(l, name) ==
    IF l = <<>> THEN 0
    ELSE (IF Head(l).event = "Order placed" /\ Head(l).name = name
          THEN Head(l).order_qty ELSE 0) + OrderedQty(Tail(l), name)

RECURSIVE RestockedQty(_, _)
\* sum of the restock quantities logged for this product id
RestockedQty(l, product) ==
    IF l = <<>> THEN 0
    ELSE (IF Head(l).event = "Restocked" /\ Head(l).product = product
          THEN Head(l).restock_qty ELSE 0) + RestockedQty(Tail(l), product)

\* C1: in every reachable state every product's qty is an integer >= 0.
C1_QtyNonNegative ==
    \A p \in DOMAIN catalog : catalog[p].qty \in Int /\ catalog[p].qty >= 0

\* an order has drained a product to exactly zero
C1_Witness ==
    /\ catalog["beer"].qty = 0
    /\ Len(log) = 1
    /\ log[1].event = "Order placed"

\* C2: an order of a positive q <= qty(p) on a catalog product p succeeds, the
\* stored qty becomes qty_before - q >= 0, remaining_qty is the new stored qty
\* and ordered_qty is q.
C2_OrderSucceeds ==
    [][\A req \in BagToSet(inflight) :
          (/\ Served(req)
           /\ IsPlaceOrder(req)
           /\ req.path[2] \in DOMAIN catalog
           /\ req.qty > 0
           /\ req.qty <= catalog[req.path[2]].qty)
          => (/\ response'.status = 200
              /\ catalog'[req.path[2]].qty = catalog[req.path[2]].qty - req.qty
              /\ catalog'[req.path[2]].qty >= 0
              /\ response'.body.remaining_qty = catalog'[req.path[2]].qty
              /\ response'.body.ordered_qty = req.qty)]_vars

\* 3 pizzas ordered from the seeded 1000: 997 remain, 38.97 is charged
C2_Witness ==
    /\ response.status = 200
    /\ response.request = [method |-> "GET", path |-> <<"warehouse", "pizza">>, qty |-> 3]
    /\ response.body.remaining_qty = 997
    /\ response.body.total_price = 3897
    /\ catalog["pizza"].qty = 997

\* C3: an order of q > qty(p) on a catalog product p fails with 400
\* "Insufficient stock", requested = q, available = qty(p), and no qty changes.
C3_InsufficientStock ==
    [][\A req \in BagToSet(inflight) :
          (/\ Served(req)
           /\ IsPlaceOrder(req)
           /\ req.path[2] \in DOMAIN catalog
           /\ req.qty > catalog[req.path[2]].qty)
          => (/\ response'.status = 400
              /\ response'.body.error = "Insufficient stock"
              /\ response'.body.requested = req.qty
              /\ response'.body.available = catalog[req.path[2]].qty
              /\ QtyUnchanged)]_vars

\* 2000 pizzas ordered from 1000
C3_Witness ==
    /\ response.status = 400
    /\ response.request = [method |-> "GET", path |-> <<"warehouse", "pizza">>, qty |-> 2000]
    /\ response.body.error = "Insufficient stock"
    /\ response.body.requested = 2000
    /\ response.body.available = 1000
    /\ catalog["pizza"].qty = 1000

\* the 404 outcome of C4 for the request served by this step
NotFoundOutcome(req) ==
    /\ response'.status = 404
    /\ QtyUnchanged
    /\ IsPlaceOrder(req) =>
          {response'.body.available_products[i] :
              i \in 1..Len(response'.body.available_products)} = DOMAIN catalog

\* C4 as stated: an order or restock of a product id that is no key of the
\* catalog fails with 404 whatever the quantity, changes no qty, and the
\* order's error lists every valid id.
C4_Original ==
    [][\A req \in BagToSet(inflight) :
          (/\ Served(req)
           /\ IsPlaceOrder(req) \/ IsRestock(req)
           /\ req.path[2] \notin DOMAIN catalog)
          => NotFoundOutcome(req)]_vars

\* C4 amended: for a positive quantity the outcome is 404 as stated; for a
\* quantity <= 0 the request is rejected with 422 before the lookup; no qty
\* changes either way.
C4_NotFound ==
    [][\A req \in BagToSet(inflight) :
          (/\ Served(req)
           /\ IsPlaceOrder(req) \/ IsRestock(req)
           /\ req.path[2] \notin DOMAIN catalog)
          => IF req.qty > 0
             THEN NotFoundOutcome(req)
             ELSE response'.status = 422 /\ QtyUnchanged]_vars

\* an order of the unknown product "soda" answered 404 with the five ids
C4_Witness ==
    /\ response.status = 404
    /\ response.request = [method |-> "GET", path |-> <<"warehouse", "soda">>, qty |-> 3]
    /\ response.body.available_products = SeedOrder
    /\ catalog = SeedCatalog

\* C5: a restock of a positive q on a catalog product p succeeds, the stored
\* qty becomes qty_before + q, and the response has previous_qty = qty_before,
\* restocked_qty = q, new_qty = qty_before + q.
C5_RestockSucceeds ==
    [][\A req \in BagToSet(inflight) :
          (/\ Served(req)
           /\ IsRestock(req)
           /\ req.path[2] \in DOMAIN catalog
           /\ req.qty > 0)
          => (/\ response'.status = 200
              /\ catalog'[req.path[2]].qty = catalog[req.path[2]].qty + req.qty
              /\ response'.body.previous_qty = catalog[req.path[2]].qty
              /\ response'.body.restocked_qty = req.qty
              /\ response'.body.new_qty = catalog[req.path[2]].qty + req.qty)]_vars

\* beer restocked by 50 from the seeded 500
C5_Witness ==
    /\ response.status = 200
    /\ response.request =
          [method |-> "POST", path |-> <<"warehouse", "beer", "restock">>, qty |-> 50]
    /\ response.body.previous_qty = 500
    /\ response.body.new_qty = 550
    /\ catalog["beer"].qty = 550

\* C6: whatever the interleaving of the requests in flight, no qty is ever
\* negative, and once no request is in flight every qty is the seeded qty plus
\* the successful restocks minus the successful orders.
C6_Serialized ==
    /\ \A p \in DOMAIN catalog : catalog[p].qty >= 0
    /\ inflight = EmptyBag =>
          \A p \in DOMAIN catalog :
              catalog[p].qty = SeedCatalog[p].qty + RestockedQty(log, p)
                                  - OrderedQty(log, catalog[p].name)

\* an order and a restock of beer were in flight together and both are done
C6_Witness ==
    /\ inflight = EmptyBag
    /\ peak >= 2
    /\ Len(log) = 2
    /\ OrderedQty(log, "Craft Beer") = 500
    /\ RestockedQty(log, "beer") = 50
    /\ catalog["beer"].qty = 50

\* C7: an order or restock with a quantity <= 0 is rejected with 422 by the
\* parameter validation; the catalog and the log are unchanged.
C7_InvalidQuantity ==
    [][\A req \in BagToSet(inflight) :
          (/\ Served(req)
           /\ IsPlaceOrder(req) \/ IsRestock(req)
           /\ req.qty <= 0)
          => (/\ response'.status = 422
              /\ catalog' = catalog
              /\ log' = log)]_vars

\* a restock of -1 pizzas rejected after an order had changed the stock
C7_Witness ==
    /\ response.status = 422
    /\ response.request =
          [method |-> "POST", path |-> <<"warehouse", "pizza", "restock">>, qty |-> -1]
    /\ catalog["pizza"].qty = 997

\* C8: a restock of q on p, when the last change of p's qty was a successful
\* order of the same q, returns qty(p) to its value before that order.
C8_RoundTrip ==
    [][\A req \in BagToSet(inflight) :
          (/\ Served(req)
           /\ IsRestock(req)
           /\ req.path[2] \in DOMAIN catalog
           /\ req.qty > 0
           /\ lastOrder[req.path[2]] # NoOrder
           /\ lastOrder[req.path[2]].order_qty = req.qty)
          => catalog'[req.path[2]].qty = lastOrder[req.path[2]].available]_vars

\* 3 burgers ordered and then restocked
C8_Witness ==
    /\ Len(log) = 2
    /\ log[1] = [event |-> "Order placed", order_qty |-> 3, units |-> "pieces",
                 name |-> "Classic Burger", remaining |-> 747]
    /\ log[2].event = "Restocked"
    /\ log[2].product = "burger"
    /\ log[2].restock_qty = 3
    /\ catalog["burger"].qty = 750

\* C9: the ids stay the five seeded ids; name, units and price never change;
\* a qty changes only for the product of the successful order or restock the
\* step serves; the inventory and health responses count 5 products.
C9_Frame ==
    [][/\ DOMAIN catalog' = DOMAIN SeedCatalog
       /\ \A p \in DOMAIN SeedCatalog :
             /\ catalog'[p].name = SeedCatalog[p].name
             /\ catalog'[p].units = SeedCatalog[p].units
             /\ catalog'[p].price = SeedCatalog[p].price
             /\ catalog'[p].qty # catalog[p].qty =>
                   \E req \in BagToSet(inflight) :
                       /\ Served(req)
                       /\ IsPlaceOrder(req) \/ IsRestock(req)
                       /\ req.path[2] = p
                       /\ response'.status = 200
       /\ \A req \in BagToSet(inflight) :
             Served(req) =>
                /\ Route(req) = "get_inventory" =>
                      catalog' = catalog /\ response'.body.total_products = 5
                /\ Route(req) = "health_check" =>
                      catalog' = catalog /\ response'.body.products_available = 5
                /\ Route(req) = "root" => catalog' = catalog]_vars

\* the inventory is listed after an order of 3 pizzas: 5 products, only the
\* pizza's qty differs from the seed
C9_Witness ==
    /\ Route(response.request) = "get_inventory"
    /\ response.body.total_products = 5
    /\ response.body.products["pizza"].qty = 997
    /\ \A p \in DOMAIN catalog \ {"pizza"} : catalog[p].qty = SeedCatalog[p].qty
    /\ DOMAIN catalog = {SeedOrder[i] : i \in 1..Len(SeedOrder)}

\* C10: no order is ever answered "Out of stock"; an order on a product whose
\* qty is 0 fails with "Insufficient stock", requested = order_qty,
\* available = 0.
C10_OutOfStockUnreachable ==
    [][\A req \in BagToSet(inflight) :
          (Served(req) /\ IsPlaceOrder(req)) =>
             /\ response'.status = 400 => response'.body.error = "Insufficient stock"
             /\ (/\ req.qty > 0
                 /\ req.path[2] \in DOMAIN catalog
                 /\ catalog[req.path[2]].qty = 0)
                => (/\ response'.status = 400
                    /\ response'.body.error = "Insufficient stock"
                    /\ response'.body.requested = req.qty
                    /\ response'.body.available = 0)]_vars

\* 3 beers ordered after the 500 seeded ones were sold
C10_Witness ==
    /\ response.status = 400
    /\ response.request = [method |-> "GET", path |-> <<"warehouse", "beer">>, qty |-> 3]
    /\ response.body.error = "Insufficient stock"
    /\ response.body.available = 0
    /\ catalog["beer"].qty = 0

====
